---- MODULE Spec2Model ----
(***************************************************************************)
(* Model of utils/seo_tools.py (class FreeSEOTools) and utils/config.py.   *)
(*                                                                         *)
(*   SpecA  analyze_competitors / get_google_search_results: the search,   *)
(*          the per-page fetch loop, the record built from each page, the  *)
(*          politeness delay and the per-iteration exception handler.      *)
(*   SpecK  extract_keywords applied to bounded texts and top_n values.    *)
(*   SpecR  calculate_readability applied to bounded texts.                *)
(***************************************************************************)
EXTENDS Integers, Sequences, FiniteSets, TLC

VARIABLES
    GOOGLE_API_KEY,     \* Config.GOOGLE_API_KEY is set (config.py:7)
    GOOGLE_CSE_ID,      \* Config.GOOGLE_CSE_ID is set (config.py:8)
    num_competitors,    \* argument of analyze_competitors
    pc,                 \* position of the running call
    results,            \* list returned by get_google_search_results
    idx,                \* 1-based position of the for loop in results
    response,           \* response of the page fetch being processed
    competitor_data,    \* list of records built so far
    returned,           \* rows of the DataFrame returned, None before
    raised,             \* an exception escaped analyze_competitors
    api,                \* history: what the search request did
    fetched,            \* history: outcome of the page fetch per iteration
    trace,              \* history: "fetch" and "sleep" events in order
    text,               \* argument of extract_keywords / calculate_readability
    top_n,              \* argument of extract_keywords
    keywords,           \* list returned by extract_keywords
    report              \* dict returned by calculate_readability

avars == <<GOOGLE_API_KEY, GOOGLE_CSE_ID, num_competitors, pc, results, idx,
           response, competitor_data, returned, raised, api, fetched, trace>>
tvars == <<text, top_n, keywords, report>>
vars == <<avars, tvars>>

None == "None"

\* ---------------------------------------------------------------- bounds
MaxCompetitors == 3

\* ------------------------------------------------------- small utilities
Min(a, b) == IF a < b THEN a ELSE b

Max(a, b) == IF a > b THEN a ELSE b

\* ============================================================ analyzer
\* What the search request can do: the transport raises, the API answers
\* with a non-200 status, the body is not JSON (response.json() raises),
\* the JSON has no 'items' key, or it carries a list of items.
ApiOutcomes == {"raise", "non200", "badjson", "noitems", "items"}

\* Items of the search answer: dicts with a 'link' and no 'rank' key.
Items(n) == [k \in 1..n |-> [link |-> k]]

\* The pages a fetch can return.  title, h1: the element is absent or is
\* there with its text.  meta: no <meta name="description">, one without a
\* content attribute, or one with content.
Pages ==
    [status : {200, 404},
     title  : {"absent", "text"},
     h1     : {"absent", "text"},
     meta   : {"absent", "nocontent", "content"},
     words  : {7}]

\* requests.get(url, timeout=10) raising.
FetchErrors == {"timeout", "connection"}

NoResponse == [status |-> 0, title |-> "absent", h1 |-> "absent",
               meta |-> "absent", words |-> 0]

\* soup.title.string if soup.title else "No title"
Title(page) == IF page.title = "absent" THEN "No title" ELSE "title text"

\* soup.find('h1').get_text() if soup.find('h1') else "No H1"
H1(page) == IF page.h1 = "absent" THEN "No H1" ELSE "h1 text"

\* meta_desc['content'] raises KeyError when the tag has no content attribute
MetaRaises(page) == page.meta = "nocontent"

\* meta_desc['content'] if meta_desc else "No meta description"
MetaDescription(page) ==
    IF page.meta = "absent" THEN "No meta description" ELSE "meta text"

\* item.get('rank', '')
Rank(item) == ""

\* the dict appended to competitor_data
Record(item, page) ==
    [URL |-> item.link,
     Title |-> Title(page),
     H1 |-> H1(page),
     Meta_Description |-> MetaDescription(page),
     Word_Count |-> page.words,
     Rank |-> Rank(item)]

\* get_google_search_results(query, num_results): the list it returns for a
\* given behaviour of the search request.
\* The outcome of a call: the list returned; raises marks an exception let
\* out instead (the function catches all of its own, lines 45-47).
Returns(list) == [raises |-> FALSE, value |-> list]

\* variant: the early return on a missing CSE id is left out
get_google_search_results_no_guard(outcome, n) ==
    CASE outcome = "raise"   -> Returns(<<>>)
      [] outcome = "non200"  -> Returns(<<>>)
      [] outcome = "badjson" -> Returns(<<>>)
      [] outcome = "noitems" -> Returns(<<>>)
      [] OTHER               -> Returns(Items(n))

get_google_search_results(outcome, n) ==
    IF ~GOOGLE_CSE_ID THEN Returns(<<>>)
    ELSE CASE outcome = "raise"   -> Returns(<<>>)
           [] outcome = "non200"  -> Returns(<<>>)
           [] outcome = "badjson" -> Returns(<<>>)
           [] outcome = "noitems" -> Returns(<<>>)
           [] OTHER               -> Returns(Items(n))

InitA ==
    /\ GOOGLE_API_KEY \in BOOLEAN
    /\ GOOGLE_CSE_ID \in BOOLEAN
    /\ num_competitors \in 1..MaxCompetitors
    /\ pc = "search"
    /\ results = <<>>
    /\ idx = 1
    /\ response = NoResponse
    /\ competitor_data = <<>>
    /\ returned = None
    /\ raised = FALSE
    /\ api = "none"
    /\ fetched = <<>>
    /\ trace = <<>>
    /\ text = <<>>
    /\ top_n = 0
    /\ keywords = <<>>
    /\ report = None

\* results = FreeSEOTools.get_google_search_results(query, num_competitors)
\* The call is outside the try block of the loop: an exception it let out
\* would leave analyze_competitors.  api records what the search service
\* does when it is asked.
Search ==
    /\ pc = "search"
    /\ \E outcome \in ApiOutcomes, n \in 0..num_competitors :
          /\ outcome # "items" => n = 0
          /\ api' = outcome
          /\ LET r == get_google_search_results(outcome, n)
             IN  /\ results' = r.value
                 /\ raised' = r.raises
                 /\ pc' = IF r.raises THEN "done" ELSE "loop"
    /\ UNCHANGED <<GOOGLE_API_KEY, GOOGLE_CSE_ID, num_competitors, idx,
                   response, competitor_data, returned, fetched,
                   trace, tvars>>

\* variant: the handler leaves the loop (break) instead of continuing
FetchFails_break ==
    /\ pc = "loop"
    /\ idx <= Len(results)
    /\ \E e \in FetchErrors :
          fetched' = Append(fetched, [error |-> e, parse |-> "not reached",
                                      page |-> NoResponse])
    /\ trace' = Append(trace, "fetch")
    /\ idx' = Len(results) + 1
    /\ UNCHANGED <<GOOGLE_API_KEY, GOOGLE_CSE_ID, num_competitors, pc, results,
                   response, competitor_data, returned, raised, api, tvars>>

\* for item in results: ... requests.get(url, headers=headers, timeout=10)
\* raises: the handler prints and continues with the next item.
FetchFails ==
    /\ pc = "loop"
    /\ idx <= Len(results)
    /\ \E e \in FetchErrors :
          fetched' = Append(fetched, [error |-> e, parse |-> "not reached",
                                      page |-> NoResponse])
    /\ trace' = Append(trace, "fetch")
    /\ idx' = idx + 1
    /\ UNCHANGED <<GOOGLE_API_KEY, GOOGLE_CSE_ID, num_competitors, pc, results,
                   response, competitor_data, returned, raised, api, tvars>>

\* requests.get returns a response, whatever its status.
FetchReturns ==
    /\ pc = "loop"
    /\ idx <= Len(results)
    /\ \E page \in Pages :
          /\ response' = page
          /\ fetched' = Append(fetched, [error |-> "none", parse |-> "pending",
                                         page |-> page])
    /\ trace' = Append(trace, "fetch")
    /\ pc' = "parse"
    /\ UNCHANGED <<GOOGLE_API_KEY, GOOGLE_CSE_ID, num_competitors, results,
                   idx, competitor_data, returned, raised, api, tvars>>

\* variant: a response whose status is not 200 is passed over
Parse_checks_status ==
    /\ pc = "parse"
    /\ IF response.status # 200
         THEN /\ idx' = idx + 1
              /\ pc' = "loop"
              /\ fetched' = [fetched EXCEPT ![idx].parse = "passed over"]
              /\ UNCHANGED competitor_data
         ELSE IF MetaRaises(response)
         THEN /\ idx' = idx + 1
              /\ pc' = "loop"
              /\ fetched' = [fetched EXCEPT ![idx].parse = "KeyError"]
              /\ UNCHANGED competitor_data
         ELSE /\ competitor_data' =
                    Append(competitor_data, Record(results[idx], response))
              /\ pc' = "sleep"
              /\ fetched' = [fetched EXCEPT ![idx].parse = "ok"]
              /\ UNCHANGED idx
    /\ UNCHANGED <<GOOGLE_API_KEY, GOOGLE_CSE_ID, num_competitors, results,
                   response, returned, raised, api, trace, tvars>>

\* soup = BeautifulSoup(...) up to competitor_data.append({...}); a KeyError
\* from meta_desc['content'] goes to the handler, which continues the loop.
Parse ==
    /\ pc = "parse"
    /\ IF MetaRaises(response)
         THEN /\ idx' = idx + 1
              /\ pc' = "loop"
              /\ fetched' = [fetched EXCEPT ![idx].parse = "KeyError"]
              /\ UNCHANGED competitor_data
         ELSE /\ competitor_data' =
                    Append(competitor_data, Record(results[idx], response))
              /\ pc' = "sleep"
              /\ fetched' = [fetched EXCEPT ![idx].parse = "ok"]
              /\ UNCHANGED idx
    /\ UNCHANGED <<GOOGLE_API_KEY, GOOGLE_CSE_ID, num_competitors, results,
                   response, returned, raised, api, trace, tvars>>

\* time.sleep(2), the last statement of the try block
Sleep ==
    /\ pc = "sleep"
    /\ trace' = Append(trace, "sleep")
    /\ idx' = idx + 1
    /\ pc' = "loop"
    /\ UNCHANGED <<GOOGLE_API_KEY, GOOGLE_CSE_ID, num_competitors, results,
                   response, competitor_data, returned, raised, api, fetched,
                   tvars>>

\* return pd.DataFrame(competitor_data)
Return ==
    /\ pc = "loop"
    /\ idx > Len(results)
    /\ returned' = competitor_data
    /\ pc' = "done"
    /\ UNCHANGED <<GOOGLE_API_KEY, GOOGLE_CSE_ID, num_competitors, results,
                   idx, response, competitor_data, raised, api, fetched,
                   trace, tvars>>

NextA == Search \/ FetchFails \/ FetchReturns \/ Parse \/ Sleep \/ Return

SpecA == InitA /\ [][NextA]_vars

\* ============================================================ keywords
\* ---------------------------------------------------------------- bounds
MaxPieces == 3

MaxTopN == 3

\* Characters are one-character strings, a text is a sequence of them.
LowerLetters == {"a", "b", "c", "d", "e", "g", "h", "m", "n", "o", "s", "t"}

UpperLetters == {"C", "T"}

Digits == {"1", "2", "3", "4"}

\* \w: letters, digits and the underscore
WordChars == LowerLetters \cup UpperLetters \cup Digits \cup {"_"}

\* whitespace, as str.split() and str.strip() see it
Whitespace == {" "}

\* str.lower() on one character
LowerChar(c) == CASE c = "C" -> "c" [] c = "T" -> "t" [] OTHER -> c

\* text.lower()
Lower(s) == [i \in 1..Len(s) |-> LowerChar(s[i])]

\* re.findall(r'\b\w{3,}\b', s): scanning left to right, each maximal run of
\* word characters is one match when it has at least 3 characters (inside a
\* run there is no \b, and the greedy \w{3,} runs to the end of the run).
RECURSIVE FindAll(_, _, _)
FindAll(s, i, run) ==
    LET match == IF Len(run) >= 3 THEN <<run>> ELSE <<>>
    IN  IF i > Len(s) THEN match
        ELSE IF s[i] \in WordChars THEN FindAll(s, i + 1, Append(run, s[i]))
        ELSE match \o FindAll(s, i + 1, <<>>)

stop_words ==
    {<<"t", "h", "e">>, <<"a", "n", "d">>, <<"o", "f">>, <<"t", "o">>,
     <<"i", "n">>, <<"i", "s">>, <<"i", "t">>, <<"t", "h", "a", "t">>,
     <<"f", "o", "r">>, <<"y", "o", "u">>, <<"w", "a", "s">>,
     <<"o", "n">>, <<"a", "r", "e">>, <<"w", "i", "t", "h">>,
     <<"a", "s">>, <<"a", "t">>, <<"b", "e">>, <<"t", "h", "i", "s">>,
     <<"h", "a", "v", "e">>, <<"f", "r", "o", "m">>, <<"o", "r">>,
     <<"a", "n">>, <<"b", "y">>, <<"n", "o", "t">>}

\* str.isdigit()
IsDigit(word) == word # <<>> /\ \A i \in 1..Len(word) : word[i] \in Digits

\* variant: numbers are kept
Filter_keeps_numbers(words) ==
    SelectSeq(words, LAMBDA word : word \notin stop_words)

\* [word for word in words if word not in stop_words and not word.isdigit()]
Filter(words) ==
    SelectSeq(words, LAMBDA word : word \notin stop_words /\ ~IsDigit(word))

\* Counter(filtered_words): the keys in order of first insertion
RECURSIVE CounterKeys(_)
CounterKeys(words) ==
    IF words = <<>> THEN <<>>
    ELSE LET front == CounterKeys(SubSeq(words, 1, Len(words) - 1))
             last == words[Len(words)]
         IN  IF \E i \in 1..Len(front) : front[i] = last THEN front
             ELSE Append(front, last)

\* Counter(filtered_words)[word]
Count(words, word) == Cardinality({i \in 1..Len(words) : words[i] = word})

\* variant: the score is the frequency alone
WordScore_frequency(words, word) == Count(words, word)

\* word_scores[word] = count * len(word)
WordScore(words, word) == Count(words, word) * Len(word)

\* sorted(keys, key=..., reverse=True): stable, so that among equal keys the
\* original order is kept also with reverse=True.  Insert each key, in
\* order, behind every key already placed whose score is not smaller.
RECURSIVE SortedReverse(_, _)
SortedReverse(keys, words) ==
    IF keys = <<>> THEN <<>>
    ELSE LET front == SortedReverse(SubSeq(keys, 1, Len(keys) - 1), words)
             last == keys[Len(keys)]
             n == Cardinality({i \in 1..Len(front) :
                      WordScore(words, front[i]) >= WordScore(words, last)})
         IN  SubSeq(front, 1, n) \o <<last>> \o SubSeq(front, n + 1, Len(front))

\* variant: list[:n + 1]
SlicePrefix_one_more(list, n) ==
    IF n + 1 >= 0 THEN SubSeq(list, 1, Min(n + 1, Len(list)))
    ELSE SubSeq(list, 1, Max(0, Len(list) + n + 1))

\* list[:n]: the first n entries, and for a negative n all but the last -n
SlicePrefix(list, n) ==
    IF n >= 0 THEN SubSeq(list, 1, Min(n, Len(list)))
    ELSE SubSeq(list, 1, Max(0, Len(list) + n))

\* the ranking before the slice
Ranking(s) ==
    LET filtered_words == Filter(FindAll(Lower(s), 1, <<>>))
    IN  SortedReverse(CounterKeys(filtered_words), filtered_words)

extract_keywords(s, n) == SlicePrefix(Ranking(s), n)

\* The pieces the input texts are put together from: stop-words in both
\* cases, words of different lengths, a number, a word of two letters, and
\* two pieces without a separator behind them, which run into the next.
Pieces ==
    {<<"t", "h", "e", " ">>, <<"T", "h", "e", ".">>,
     <<"c", "a", "t", " ">>, <<"C", "a", "t", ".">>,
     <<"d", "o", "g", " ">>, <<"m", "a", "t", "s", " ">>,
     <<"1", "2", "3", " ">>, <<"o", "n", " ">>,
     <<"a", "b">>, <<"4", "2">>}

RECURSIVE Concat(_)
Concat(ps) == IF ps = <<>> THEN <<>> ELSE Head(ps) \o Concat(Tail(ps))

KeywordTexts ==
    {Concat(ps) : ps \in UNION {[1..n -> Pieces] : n \in 0..MaxPieces}}

InitIdle ==
    /\ GOOGLE_API_KEY = FALSE
    /\ GOOGLE_CSE_ID = FALSE
    /\ num_competitors = 0
    /\ results = <<>>
    /\ idx = 1
    /\ response = NoResponse
    /\ competitor_data = <<>>
    /\ returned = None
    /\ raised = FALSE
    /\ api = "none"
    /\ fetched = <<>>
    /\ trace = <<>>

InitK ==
    /\ InitIdle
    /\ pc = "keywords"
    /\ text \in KeywordTexts
    /\ top_n \in (0 - MaxTopN)..MaxTopN
    /\ keywords = <<>>
    /\ report = None

ExtractKeywords ==
    /\ pc = "keywords"
    /\ keywords' = extract_keywords(text, top_n)
    /\ pc' = "done"
    /\ UNCHANGED <<GOOGLE_API_KEY, GOOGLE_CSE_ID, num_competitors, results,
                   idx, response, competitor_data, returned, raised, api,
                   fetched, trace, text, top_n, report>>

NextK == ExtractKeywords

SpecK == InitK /\ [][NextK]_vars

\* ========================================================= readability
\* ---------------------------------------------------------------- bounds
MaxLen == 4

MaxRunSentences == 21

\* The positions of a set in ascending order, by halving the range.
RECURSIVE Ascending(_, _, _)
Ascending(S, lo, hi) ==
    LET part == {x \in S : lo <= x /\ x <= hi}
        mid == (lo + hi) \div 2
    IN  IF part = {} THEN <<>>
        ELSE IF lo = hi THEN <<lo>>
        ELSE Ascending(part, lo, mid) \o Ascending(part, mid + 1, hi)

\* the characters of [.!?]
Terminators == {".", "!", "?"}

\* re.split(r'[.!?]', s): the pieces between the terminators, one more
\* than there are terminators, empty pieces included
re_split(s) ==
    LET cuts == Ascending({i \in 1..Len(s) : s[i] \in Terminators}, 1, Len(s))
        cut(k) == IF k = 0 THEN 0
                  ELSE IF k > Len(cuts) THEN Len(s) + 1
                  ELSE cuts[k]
    IN  [k \in 1..(Len(cuts) + 1) |-> SubSeq(s, cut(k - 1) + 1, cut(k) - 1)]

\* str.strip()
strip(s) ==
    LET black == {i \in 1..Len(s) : s[i] \notin Whitespace}
    IN  IF black = {} THEN <<>>
        ELSE SubSeq(s, CHOOSE i \in black : \A j \in black : i <= j,
                       CHOOSE i \in black : \A j \in black : j <= i)

\* str.split(): the maximal runs of non-whitespace characters, in order
split(s) ==
    LET starts == {i \in 1..Len(s) : /\ s[i] \notin Whitespace
                                     /\ i = 1 \/ s[i - 1] \in Whitespace}
        order == Ascending(starts, 1, Len(s))
        end(i) == CHOOSE j \in i..Len(s) :
                      /\ j = Len(s) \/ s[j + 1] \in Whitespace
                      /\ \A k \in i..j : s[k] \notin Whitespace
    IN  [k \in 1..Len(order) |-> SubSeq(s, order[k], end(order[k]))]

\* sum(len(word) for word in words[lo..hi]), by halving the range
RECURSIVE SumLen(_, _, _)
SumLen(words, lo, hi) ==
    IF lo > hi THEN 0
    ELSE IF lo = hi THEN Len(words[lo])
    ELSE SumLen(words, lo, (lo + hi) \div 2)
         + SumLen(words, (lo + hi) \div 2 + 1, hi)

\* A float that is the quotient of two ints is kept as the exact fraction;
\* the double it stands for is the fraction rounded to 53 bits.
Fraction(n, d) == [num |-> n, den |-> d]

\* d <= n < 2d after scaling by powers of two (n, d > 0)
RECURSIVE Normalise(_, _)
Normalise(n, d) ==
    IF n < d THEN Normalise(2 * n, d)
    ELSE IF n >= 2 * d THEN Normalise(n, 2 * d)
    ELSE <<n, d>>

\* binary long division: the remainder and the last bit after `bits` more
\* quotient bits
RECURSIVE LongDivision(_, _, _, _)
LongDivision(r, d, bits, last) ==
    IF bits = 0 THEN <<r, last>>
    ELSE IF 2 * r >= d THEN LongDivision(2 * r - d, d, bits - 1, 1)
    ELSE LongDivision(2 * r, d, bits - 1, 0)

\* How the double nearest to n/d (round to nearest, ties to even, 53 bits)
\* compares to n/d itself.
DoubleError(n, d) ==
    LET nd == Normalise(n, d)
        rl == LongDivision(nd[1] - nd[2], nd[2], 52, 1)
        r == rl[1]
    IN  IF r = 0 THEN "exact"
        ELSE IF 2 * r > nd[2] \/ (2 * r = nd[2] /\ rl[2] = 1) THEN "above"
        ELSE "below"

\* round(x, 1) for x = n/d >= 0, as a number of tenths.  Python rounds the
\* exact value of the double correctly, a tie to the even digit; the
\* double is on a decimal tie only when the fraction itself is one and is
\* exact in binary.
round1(x) ==
    LET q == (10 * x.num) \div x.den
        r == (10 * x.num) % x.den
    IN  IF 2 * r < x.den THEN q
        ELSE IF 2 * r > x.den THEN q + 1
        ELSE CASE DoubleError(x.num, x.den) = "above" -> q + 1
               [] DoubleError(x.num, x.den) = "below" -> q
               [] OTHER -> IF q % 2 = 0 THEN q ELSE q + 1

\* x > n for x a fraction and n an int
Greater(x, n) == x.num > n * x.den

\* variant: the level is taken from the rounded average
ReadingLevel_rounded(avg_sentence_length) ==
    IF round1(avg_sentence_length) > 200 THEN "College"
    ELSE IF round1(avg_sentence_length) > 150 THEN "High School"
    ELSE "Easy"

\* 'College' if avg_sentence_length > 20 else 'High School' if
\* avg_sentence_length > 15 else 'Easy', on the unrounded average
ReadingLevel(avg_sentence_length) ==
    IF Greater(avg_sentence_length, 20) THEN "College"
    ELSE IF Greater(avg_sentence_length, 15) THEN "High School"
    ELSE "Easy"

\* variant: word_count / max(sentence_count, 1)
AvgSentenceLength_max1(word_count, sentence_count) ==
    Fraction(word_count, Max(sentence_count, 1))

\* word_count / sentence_count if sentence_count > 0 else 0
AvgSentenceLength(word_count, sentence_count) ==
    IF sentence_count > 0 THEN Fraction(word_count, sentence_count)
    ELSE Fraction(0, 1)

\* sum(len(word) for word in words) / word_count if word_count > 0 else 0
AvgWordLength(words, word_count) ==
    IF word_count > 0 THEN Fraction(SumLen(words, 1, Len(words)), word_count)
    ELSE Fraction(0, 1)

\* The two averages of the report are numbers of tenths.
calculate_readability(s) ==
    LET sentences == re_split(s)
        words == split(s)
        word_count == Len(words)
        sentence_count ==
            Len(SelectSeq(sentences, LAMBDA f : strip(f) # <<>>))
        avg_sentence_length == AvgSentenceLength(word_count, sentence_count)
        avg_word_length == AvgWordLength(words, word_count)
    IN  [word_count |-> word_count,
         sentence_count |-> sentence_count,
         avg_sentence_length |-> round1(avg_sentence_length),
         avg_word_length |-> round1(avg_word_length),
         reading_level |-> ReadingLevel(avg_sentence_length)]

\* Input texts: every text of at most MaxLen characters over a small
\* alphabet, and long texts "a a ... a a.a.a." of m + 1 words and k
\* sentences with m + 1 around 15 k and 20 k.
ReadabilityChars == {"a", " ", ".", "!", "?"}

ShortTexts == UNION {[1..n -> ReadabilityChars] : n \in 0..MaxLen}

Repeat(s, n) == [i \in 1..(n * Len(s)) |-> s[((i - 1) % Len(s)) + 1]]

RunSentences == {1, MaxRunSentences - 1, MaxRunSentences}

RunWords(k) == {15 * k - 1, 15 * k, 20 * k - 1, 20 * k}

LongTexts ==
    {Repeat(<<"a", " ">>, m) \o Repeat(<<"a", ".">>, k) :
        <<m, k>> \in {mk \in (0..(20 * MaxRunSentences)) \X RunSentences :
                         mk[1] \in RunWords(mk[2])}}

InitR ==
    /\ InitIdle
    /\ pc = "readability"
    /\ text \in ShortTexts \cup LongTexts
    /\ top_n = 0
    /\ keywords = <<>>
    /\ report = None

CalculateReadability ==
    /\ pc = "readability"
    /\ report' = calculate_readability(text)
    /\ pc' = "done"
    /\ UNCHANGED <<GOOGLE_API_KEY, GOOGLE_CSE_ID, num_competitors, results,
                   idx, response, competitor_data, returned, raised, api,
                   fetched, trace, text, top_n, keywords>>

NextR == CalculateReadability

SpecR == InitR /\ [][NextR]_vars

\* ============================================================== claims
\* ------------------------------------------------------------ analyzer
\* iteration i of the loop ended in the exception handler
IterationRaised(i) ==
    fetched[i].error # "none" \/ fetched[i].parse = "KeyError"

\* the result positions whose iteration did not raise, in order
Kept == SelectSeq([i \in 1..Len(fetched) |-> i],
                  LAMBDA i : ~IterationRaised(i))

URLs(rows) == [k \in 1..Len(rows) |-> rows[k].URL]

\* C1: when analyze_competitors returns, every search result has been
\* fetched (no failure stopped the loop), nothing was raised, and the rows
\* returned are, in search-result order, exactly the results whose fetch
\* and parse did not fail.
C1_PartialSuccessInOrder ==
    pc = "done" =>
        /\ ~raised
        /\ Len(fetched) = Len(results)
        /\ URLs(returned) = [k \in 1..Len(Kept) |-> results[Kept[k]].link]

C1_Witness ==
    /\ pc = "done"
    /\ Len(results) = 3
    /\ fetched[1].error = "none" /\ fetched[1].parse = "ok"
    /\ fetched[2].error = "timeout"
    /\ URLs(returned) = <<1, 3>>

\* C2: with no CSE id configured, or with the search request raising, no
\* page is ever fetched, nothing is raised, and the rows returned are
\* empty.
C2_NoSearchNoFetch ==
    (pc # "search" /\ (~GOOGLE_CSE_ID \/ api = "raise")) =>
        /\ ~raised
        /\ results = <<>>
        /\ trace = <<>>
        /\ competitor_data = <<>>
        /\ pc = "done" => returned = <<>>

C2_Witness ==
    /\ pc = "done"
    /\ ~GOOGLE_CSE_ID /\ ~GOOGLE_API_KEY
    /\ api = "items"
    /\ returned = <<>>

\* C3: every page whose fetch returned a response has a row, in which a
\* missing title, H1 or meta description is replaced by its placeholder;
\* no state of an element makes the page be skipped.
C3_ElementsNeverSkipAPage ==
    \A i \in 1..Len(fetched) :
        (fetched[i].error = "none" /\ fetched[i].parse # "pending") =>
            \E k \in 1..Len(competitor_data) :
                /\ competitor_data[k].URL = results[i].link
                /\ fetched[i].page.title = "absent"
                      => competitor_data[k].Title = "No title"
                /\ fetched[i].page.h1 = "absent"
                      => competitor_data[k].H1 = "No H1"
                /\ fetched[i].page.meta = "absent"
                      => competitor_data[k].Meta_Description
                             = "No meta description"

\* C8: a delay lies between any two successive page fetches: in the order
\* of events no fetch follows a fetch directly.
C8_DelayBetweenFetches ==
    \A k \in 1..(Len(trace) - 1) :
        trace[k] = "fetch" => trace[k + 1] = "sleep"

\* C10: a response of any status gives a row unless the parse raises: the
\* rows returned are as many as the search results less the iterations
\* that raised, and each iteration that did not raise has its row.
C10_OmittedOnlyOnException ==
    /\ \A i \in 1..Len(fetched) :
          (fetched[i].error = "none" /\ fetched[i].parse = "ok") =>
              \E k \in 1..Len(competitor_data) :
                  competitor_data[k].URL = results[i].link
    /\ pc = "done" =>
          Len(returned) = Len(results)
              - Cardinality({i \in 1..Len(fetched) : IterationRaised(i)})

C10_Witness ==
    /\ pc = "done"
    /\ Len(results) = 2
    /\ fetched[1].page.status = 404 /\ fetched[1].parse = "ok"
    /\ fetched[2].parse = "KeyError"
    /\ URLs(returned) = <<1>>

\* ------------------------------------------------------------ keywords
\* text[i..j] is a maximal run of word characters of s
IsTokenAt(s, i, j) ==
    /\ 1 <= i /\ i <= j /\ j <= Len(s)
    /\ \A k \in i..j : s[k] \in WordChars
    /\ i = 1 \/ s[i - 1] \notin WordChars
    /\ j = Len(s) \/ s[j + 1] \notin WordChars

\* ... of at least 3 characters, no stop-word and not a number
Survives(s, i, j) ==
    /\ IsTokenAt(s, i, j)
    /\ j - i + 1 >= 3
    /\ SubSeq(s, i, j) \notin stop_words
    /\ \E k \in i..j : s[k] \notin Digits

SurvivingTokens(s) ==
    {SubSeq(s, i, j) : <<i, j>> \in
        {ij \in (1..Len(s)) \X (1..Len(s)) : Survives(s, ij[1], ij[2])}}

Occurrences(s, w) ==
    {i \in 1..Len(s) : \E j \in i..Len(s) :
        Survives(s, i, j) /\ SubSeq(s, i, j) = w}

Score(s, w) == Cardinality(Occurrences(s, w)) * Len(w)

FirstOccurrence(s, w) ==
    CHOOSE i \in Occurrences(s, w) : \A j \in Occurrences(s, w) : i <= j

\* a ranks before b
Before(s, a, b) ==
    \/ Score(s, a) > Score(s, b)
    \/ Score(s, a) = Score(s, b)
          /\ FirstOccurrence(s, a) < FirstOccurrence(s, b)

\* C4, as stated: for every integer top_n the result has at most top_n
\* entries.
C4_AtMostN ==
    pc = "done" => Len(keywords) <= top_n

\* C4, amended: for every top_n >= 0 the result has at most top_n entries
\* (a negative top_n drops the last -top_n entries of the ranking instead).
C4_AtMostNonNegativeN ==
    pc = "done" =>
        /\ top_n >= 0 => Len(keywords) <= top_n
        /\ top_n < 0 =>
              Len(keywords) =
                  Max(0, Cardinality(SurvivingTokens(Lower(text))) + top_n)

C4_Witness ==
    /\ pc = "done"
    /\ top_n = 2
    /\ Cardinality(SurvivingTokens(Lower(text))) = 3
    /\ Len(keywords) = 2

\* C6: every keyword is a maximal run of word characters of the lower-cased
\* text, has at least 3 characters, is no stop-word and is not a number.
C6_KeywordsAreSurvivingTokens ==
    pc = "done" =>
        \A k \in 1..Len(keywords) :
            LET w == keywords[k]
            IN  /\ Len(w) >= 3
                /\ w \notin stop_words
                /\ \E c \in 1..Len(w) : w[c] \notin Digits
                /\ \A c \in 1..Len(w) : w[c] \in WordChars \ UpperLetters
                /\ \E i, j \in 1..Len(text) :
                      /\ IsTokenAt(Lower(text), i, j)
                      /\ SubSeq(Lower(text), i, j) = w

C6_Witness ==
    /\ pc = "done"
    /\ text = <<"T", "h", "e", ".", "1", "2", "3", " ", "C", "a", "t", ".">>
    /\ top_n = 3
    /\ keywords = <<(<<"c", "a", "t">>)>>

\* C9: the result has no duplicates, runs by non-increasing score
\* (occurrences among the surviving tokens times length) with equal scores
\* in the order of first occurrence, and is a prefix of that ranking of the
\* surviving tokens: every token left out ranks behind those returned, and
\* for top_n >= 0 the result has min(top_n, number of tokens) entries.
C9_RankedByScoreThenFirstOccurrence ==
    pc = "done" =>
        LET s == Lower(text)
        IN  /\ \A a, b \in 1..Len(keywords) :
                   a # b => keywords[a] # keywords[b]
            /\ \A k \in 1..Len(keywords) : keywords[k] \in SurvivingTokens(s)
            /\ \A k \in 1..(Len(keywords) - 1) :
                   Before(s, keywords[k], keywords[k + 1])
            /\ \A w \in SurvivingTokens(s) :
                   (\A k \in 1..Len(keywords) : keywords[k] # w) =>
                       \A k \in 1..Len(keywords) : Before(s, keywords[k], w)
            /\ top_n >= 0 =>
                   Len(keywords) = Min(top_n, Cardinality(SurvivingTokens(s)))

C9_Witness ==
    /\ pc = "done"
    /\ text = <<"d", "o", "g", " ", "c", "a", "t", " ", "m", "a", "t", "s", " ">>
    /\ top_n = 2
    /\ keywords = <<(<<"m", "a", "t", "s">>), (<<"d", "o", "g">>)>>

\* --------------------------------------------------------- readability
Levels == {"Easy", "High School", "College"}

\* C5, as stated: the level follows from the avg_sentence_length of the
\* report (in tenths): College above 20.0, High School above 15.0 and up to
\* 20.0, Easy otherwise.
C5_LevelFromReportedAverage ==
    pc = "done" =>
        report.reading_level =
            IF report.avg_sentence_length > 200 THEN "College"
            ELSE IF report.avg_sentence_length > 150 THEN "High School"
            ELSE "Easy"

\* C5, amended: the level follows from the unrounded quotient
\* word_count / sentence_count (0 without sentences) with the same
\* thresholds, and the reported average is within 0.05 of that quotient.
C5_LevelFromExactQuotient ==
    pc = "done" =>
        LET w == report.word_count
            n == report.sentence_count
        IN  /\ report.reading_level =
                   IF n > 0 /\ w > 20 * n THEN "College"
                   ELSE IF n > 0 /\ w > 15 * n THEN "High School"
                   ELSE "Easy"
            /\ n > 0 =>
                   /\ 20 * w - n <= 2 * n * report.avg_sentence_length
                   /\ 2 * n * report.avg_sentence_length <= 20 * w + n
            /\ n = 0 => report.avg_sentence_length = 0

C5_Witness ==
    /\ pc = "done"
    /\ report.sentence_count > 20
    /\ report.word_count = 15 * report.sentence_count + 1
    /\ report.avg_sentence_length = 150
    /\ report.reading_level = "High School"

\* C7: a report is always produced; without a non-blank sentence fragment
\* (only whitespace and terminators) the average sentence length is 0,
\* without words (only whitespace) the average word length is 0, and the
\* empty text gives all zeros and "Easy".
C7_TotalWithZeroDefaults ==
    pc = "done" =>
        /\ report.reading_level \in Levels
        /\ report.word_count >= 0 /\ report.sentence_count >= 0
        /\ (\A i \in 1..Len(text) : text[i] \in Whitespace \cup Terminators)
              => /\ report.sentence_count = 0
                 /\ report.avg_sentence_length = 0
                 /\ report.reading_level = "Easy"
        /\ (\A i \in 1..Len(text) : text[i] \in Whitespace)
              => report.word_count = 0 /\ report.avg_word_length = 0
        /\ text = <<>> =>
              report = [word_count |-> 0, sentence_count |-> 0,
                        avg_sentence_length |-> 0, avg_word_length |-> 0,
                        reading_level |-> "Easy"]

C7_Witness ==
    /\ pc = "done"
    /\ text = <<".", " ", "?">>
    /\ report.word_count = 2
    /\ report.sentence_count = 0
    /\ report.avg_sentence_length = 0
    /\ report.avg_word_length = 10

====
